---- MODULE Spec2Model ----
(***************************************************************************)
(* Model of the realtime subscription / reconnection manager               *)
(* src/src/hooks/useSupabaseSubscription.ts (hook useSupabaseSubscription).*)
(*                                                                         *)
(* Every callback of the hook is one atomic action (JavaScript runs each   *)
(* callback to completion).  A callback created by setupSubscription sees  *)
(* the sessionId and retryCount of the render that created that            *)
(* setupSubscription (useCallback closures): this captured pair is the     *)
(* "env" carried by channels and timeouts.  The transport (supabase        *)
(* realtime) is the environment: it delivers status / error callbacks for  *)
(* channels that have not been removed, and settles heartbeat send         *)
(* promises whenever it likes.                                             *)
(*                                                                         *)
(* Channels and timers are opaque objects: the program only stores and     *)
(* compares their identities.  A channel that was removed and that no      *)
(* interval or pending promise references any more is garbage and leaves   *)
(* the model; a new channel or timer takes the smallest identity that      *)
(* nothing still refers to.                                                *)
(*                                                                         *)
(* setRetryCount and setIsConnected are assignments to the hook's state    *)
(* cells.  The session id is absent or known when the hook mounts and, if  *)
(* absent, may become known later.  The component may call the             *)
(* setupSubscription and reconnect of its current render at any time while *)
(* it is mounted (Spec); SpecAuto is the automatic path alone.             *)
(***************************************************************************)
EXTENDS Integers, Sequences, FiniteSets, TLC

\* ---- program constants (useSupabaseSubscription.ts:6-8) ----
INITIAL_RETRY_DELAY == 1000
MAX_RETRY_DELAY == 30000
MAX_RETRY_ATTEMPTS == 5

\* ---- bounds of the model ----
MaxChannels == 2   \* channels referenced at the same time
MaxTimerIds == 3   \* timer identities referenced at the same time
MaxSends == 1      \* heartbeat sends in flight at the same time
MaxFailures == 2   \* failures in a row, Spec
MaxRetry == 1      \* values of retryCount, Spec
AutoMaxFailures == 6  \* failures in a row, SpecAuto
AutoMaxRetry == 7     \* values of retryCount, SpecAuto

NoSession == "null"
Sids == {"s1"}
Roles == {"user", "assistant", "owner", "system"}
ValidRoles == {"user", "assistant", "owner"}

VARIABLES
  mounted,               \* the component using the hook is mounted
  sessionId,             \* hook argument of the current render
  retryCount,            \* useState(0)
  isConnected,           \* useState(false)
  channelRef,            \* useRef: id of the channel held, 0 = null
  timeoutRef,            \* useRef: id of the last setTimeout, 0 = undefined
  heartbeatIntervalRef,  \* useRef: id of the heartbeat setInterval, 0 = undefined
  channels,              \* the channels still referenced, indexed by identity
  timeouts,              \* pending setTimeout timers
  intervals,             \* active setInterval timers
  pendingSends,          \* channels with a heartbeat send promise not yet settled
  toasts,                \* notifications emitted by the last callback
  lastOp,                \* history: the callback that ran last
  failures,              \* history: recoverable failures since the last success / manual reconnect
  terminalCount,         \* history: terminal notifications since the last success / manual reconnect
  reconnSince,           \* history: a reconnection was triggered since the held handle reported SUBSCRIBED
  preReconnect,          \* history: timeouts that were pending when reconnect() was last called
  reconnectSetups        \* history: setups caused by the last reconnect() call

progVars == <<mounted, sessionId, retryCount, isConnected, channelRef, timeoutRef,
              heartbeatIntervalRef, channels, timeouts, intervals,
              pendingSends, toasts>>
histVars == <<lastOp, failures, terminalCount, reconnSince, preReconnect, reconnectSetups>>
vars == <<mounted, sessionId, retryCount, isConnected, channelRef, timeoutRef,
          heartbeatIntervalRef, channels, timeouts, intervals,
          pendingSends, toasts, lastOp, failures, terminalCount, reconnSince,
          preReconnect, reconnectSetups>>

Min(a, b) == IF a < b THEN a ELSE b

RECURSIVE Pow2(_)
Pow2(n) == IF n = 0 THEN 1 ELSE 2 * Pow2(n - 1)

\* the mutable state a callback works on, as one record
Cur ==
  [retryCount |-> retryCount, isConnected |-> isConnected, channelRef |-> channelRef,
   timeoutRef |-> timeoutRef, heartbeatIntervalRef |-> heartbeatIntervalRef,
   channels |-> channels, timeouts |-> timeouts, intervals |-> intervals,
   pendingSends |-> pendingSends, toasts |-> <<>>]

\* the channels something can still reach: not removed (the transport holds them),
\* or probed by an interval, or awaited by a send promise
Referenced(s) ==
  {c \in DOMAIN s.channels :
     \/ ~s.channels[c].removed
     \/ c \in s.pendingSends
     \/ \E iv \in s.intervals : iv.ch = c}

\* identities of timers something still refers to
TimerIdsInUse(s) ==
  {t.id : t \in s.timeouts} \cup {iv.id : iv \in s.intervals}
    \cup ({s.timeoutRef, s.heartbeatIntervalRef} \ {0})

FreeTimerIds(s) == (1..MaxTimerIds) \ TimerIdsInUse(s)
FreeChannelIds(s) == (1..MaxChannels) \ DOMAIN s.channels

Least(S) == CHOOSE x \in S : \A y \in S : x <= y

\* the identity window.setTimeout / window.setInterval returns
NewTimerId(s) == Least(FreeTimerIds(s))
\* the identity of the object supabase.channel(...) returns
NewChannelId(s) == Least(FreeChannelIds(s))

Commit(s) ==
  /\ retryCount' = s.retryCount
  /\ isConnected' = s.isConnected
  /\ channelRef' = s.channelRef
  /\ timeoutRef' = s.timeoutRef
  /\ heartbeatIntervalRef' = s.heartbeatIntervalRef
  /\ channels' = [c \in Referenced(s) |-> s.channels[c]]
  /\ timeouts' = s.timeouts
  /\ intervals' = s.intervals
  /\ pendingSends' = s.pendingSends
  /\ toasts' = s.toasts

\* the closure of the current render: what a setupSubscription obtained now captures
RenderEnv == [sid |-> sessionId, retry |-> retryCount]

\* toast.error / toast.success
toast(s, kind) == [s EXCEPT !.toasts = Append(@, kind)]

\* supabase.removeChannel(channel): the channel leaves and its listeners are released;
\* it is closed once the transport has left, at a moment the program does not see
removeChannel(s, c) ==
  [s EXCEPT !.channels[c].removed = TRUE,
            !.channels[c].state = IF @ = "closed" THEN "closed" ELSE "leaving"]

\* clearHeartbeat, lines 17-22
clearHeartbeat(s) ==
  IF s.heartbeatIntervalRef # 0
  THEN [s EXCEPT !.intervals = {iv \in @ : iv.id # s.heartbeatIntervalRef},
                 !.heartbeatIntervalRef = 0]
  ELSE s

\* the delay of line 31
RetryDelay(n) == Min(INITIAL_RETRY_DELAY * Pow2(n), MAX_RETRY_DELAY)

\* handleReconnection without the clearTimeout() of lines 34-36
handleReconnectionNoClear(s, env) ==
  IF env.sid = NoSession \/ env.retry >= MAX_RETRY_ATTEMPTS
  THEN toast(s, "terminal")
  ELSE LET id == NewTimerId(s)
       IN [s EXCEPT !.timeouts = @ \cup {[id |-> id, env |-> env,
                                          delay |-> RetryDelay(env.retry)]},
                    !.timeoutRef = id]

\* handleReconnection, lines 24-48, as created in a render with the captured env
handleReconnection(s, env) ==
  IF env.sid = NoSession \/ env.retry >= MAX_RETRY_ATTEMPTS
  THEN toast(s, "terminal")
  ELSE LET s1 == [s EXCEPT !.timeouts = {t \in @ : t.id # s.timeoutRef}]
           id == NewTimerId(s1)
       IN [s1 EXCEPT !.timeouts = @ \cup {[id |-> id, env |-> env,
                                           delay |-> RetryDelay(env.retry)]},
                     !.timeoutRef = id]

\* startHeartbeat without the clearHeartbeat() of line 51
startHeartbeatNoClear(s, c) ==
  LET id == NewTimerId(s)
  IN [s EXCEPT !.intervals = @ \cup {[id |-> id, ch |-> c]},
               !.heartbeatIntervalRef = id]

\* startHeartbeat, lines 50-53 and 69: the interval is bound to the channel
startHeartbeat(s, c) ==
  LET s1 == clearHeartbeat(s)
      id == NewTimerId(s1)
  IN [s1 EXCEPT !.intervals = @ \cup {[id |-> id, ch |-> c]},
                !.heartbeatIntervalRef = id]

\* the teardown of lines 73-78 without the removeChannel() of line 75
teardownExistingNoRemove(s) ==
  IF s.channelRef # 0
  THEN clearHeartbeat([s EXCEPT !.channelRef = 0])
  ELSE s

\* lines 73-78: teardown of the handle a setup finds
teardownExisting(s) ==
  IF s.channelRef # 0
  THEN clearHeartbeat([removeChannel(s, s.channelRef) EXCEPT !.channelRef = 0])
  ELSE s

\* setupSubscription, lines 72-133, of a render with the captured env
setupSubscription(s, sid, env) ==
  LET s1 == teardownExisting(s)
      c == NewChannelId(s1)
  IN [s1 EXCEPT !.channels = (c :> [state |-> "joining", removed |-> FALSE,
                                    topic |-> sid, env |-> env]) @@ @,
                !.channelRef = c]

\* the timeout callback without the setRetryCount of line 40
timeoutCallbackNoIncrement(s, t) ==
  LET s1 == [s EXCEPT !.timeouts = @ \ {t}]
      s2 == IF s1.channelRef # 0
            THEN [removeChannel(s1, s1.channelRef) EXCEPT !.channelRef = 0]
            ELSE s1
  IN setupSubscription(s2, t.env.sid, t.env)

\* lines 40-46: the callback of the reconnection timeout t
timeoutCallback(s, t) ==
  LET s1 == [s EXCEPT !.timeouts = @ \ {t}, !.retryCount = @ + 1]
      s2 == IF s1.channelRef # 0
            THEN [removeChannel(s1, s1.channelRef) EXCEPT !.channelRef = 0]
            ELSE s1
  IN setupSubscription(s2, t.env.sid, t.env)

\* lines 112-116
onSubscribed(s, c) ==
  startHeartbeat([s EXCEPT !.isConnected = TRUE, !.retryCount = 0], c)

\* lines 117-120
onClosed(s, c) ==
  handleReconnection([s EXCEPT !.isConnected = FALSE], s.channels[c].env)

\* lines 121-127
onChannelError(s, c) ==
  handleReconnection(toast([s EXCEPT !.isConnected = FALSE], "connection_error"),
                     s.channels[c].env)

\* lines 101-108
onSystemError(s, c) ==
  handleReconnection(toast([s EXCEPT !.isConnected = FALSE], "connection_lost"),
                     s.channels[c].env)

\* lines 63-68: the heartbeat send promise of channel c rejects
onSendRejected(s, c) ==
  LET s1 == clearHeartbeat([s EXCEPT !.pendingSends = @ \ {c}])
  IN handleReconnection([s1 EXCEPT !.isConnected = FALSE], s.channels[c].env)

\* what channel.state === 'closed' (line 54) can yield for the channel record ch
ProbeClosed(ch) == IF ch.state = "leaving" THEN BOOLEAN ELSE {ch.state = "closed"}

\* lines 53-68: one tick of the heartbeat interval iv, the probe of line 54 giving closed
heartbeatTick(s, iv, closed) ==
  IF closed
  THEN clearHeartbeat(s)
  ELSE [s EXCEPT !.pendingSends = @ \cup {iv.ch}]

\* a postgres_changes callback that reports the invalid role to the user
onInsertNotifies(s, role) ==
  IF role \notin ValidRoles
  THEN toast(s, "invalid_role")
  ELSE s

\* lines 92-99: the postgres_changes callback; it logs, and returns early on a role
\* outside the allow-list; nothing follows the role test
onInsert(s, role) ==
  IF role \notin ValidRoles
  THEN s
  ELSE s

\* reconnect, lines 135-150 (sessionId known)
reconnectBody(s, sid, env) ==
  LET s1 == [s EXCEPT !.retryCount = 0, !.isConnected = FALSE]
      s2 == IF s1.channelRef # 0
            THEN [removeChannel(s1, s1.channelRef) EXCEPT !.channelRef = 0]
            ELSE s1
      s3 == setupSubscription(clearHeartbeat(s2), sid, env)
  IN toast(s3, "reconnecting")

\* reconnect without the guard of line 136
reconnectNoGuard(s, sid, env) == reconnectBody(s, sid, env)

\* reconnect, lines 135-150, of a render with session id sid
reconnect(s, sid, env) ==
  IF sid = NoSession
  THEN s
  ELSE reconnectBody(s, sid, env)

\* lines 154-164: the unmount cleanup
cleanup(s) ==
  LET s1 == [s EXCEPT !.timeouts = {t \in @ : t.id # s.timeoutRef}]
      s2 == clearHeartbeat(s1)
  IN IF s2.channelRef # 0
     THEN [removeChannel(s2, s2.channelRef) EXCEPT !.channelRef = 0]
     ELSE s2

\* ---- history bookkeeping (not program state) ----
CountTerminal(ts) == Cardinality({i \in 1..Len(ts) : ts[i] = "terminal"})

\* the timeouts pending at the last reconnect() that are still pending in s
StillPending(s) == preReconnect \cap {t.id : t \in s.timeouts}

\* a recoverable failure callback ran and produced the state s
HistFailure(name, s) ==
  /\ lastOp' = name
  /\ failures' = failures + 1
  /\ terminalCount' = terminalCount + CountTerminal(s.toasts)
  /\ reconnSince' = TRUE
  /\ preReconnect' = StillPending(s)
  /\ UNCHANGED reconnectSetups

HistOther(name, s) ==
  /\ lastOp' = name
  /\ preReconnect' = StillPending(s)
  /\ UNCHANGED <<failures, terminalCount, reconnSince, reconnectSetups>>

Live == {c \in DOMAIN channels : ~channels[c].removed}

\* room for one more channel / one more timer within the bounds
CanOpen == Cardinality(DOMAIN channels) < MaxChannels
CanTime == Cardinality(TimerIdsInUse(Cur)) < MaxTimerIds

Init ==
  /\ mounted = TRUE
  /\ sessionId \in Sids \cup {NoSession}
  /\ retryCount = 0
  /\ isConnected = FALSE
  /\ channelRef = 0
  /\ timeoutRef = 0
  /\ heartbeatIntervalRef = 0
  /\ channels = << >>
  /\ timeouts = {}
  /\ intervals = {}
  /\ pendingSends = {}
  /\ toasts = <<>>
  /\ lastOp = "init"
  /\ failures = 0
  /\ terminalCount = 0
  /\ reconnSince = FALSE
  /\ preReconnect = {}
  /\ reconnectSetups = 0

\* the component renders again with the sessionId of the chat session that has
\* just become known
SetSessionId(sid) ==
  /\ mounted
  /\ sessionId = NoSession
  /\ sessionId' = sid
  /\ Commit(Cur)
  /\ HistOther("setSessionId", Cur)
  /\ UNCHANGED mounted

\* the component calls the setupSubscription of the current render
Setup(sid) ==
  /\ mounted
  /\ CanOpen
  /\ Commit(setupSubscription(Cur, sid, RenderEnv))
  /\ HistOther("setup", Cur)
  /\ UNCHANGED <<mounted, sessionId>>

\* the component calls the reconnect of the current render
Reconnect ==
  /\ mounted
  /\ CanOpen
  /\ Commit(reconnect(Cur, sessionId, RenderEnv))
  /\ IF sessionId = NoSession
     THEN HistOther("reconnect_nosession", Cur)
     ELSE /\ lastOp' = "reconnect"
          /\ failures' = 0
          /\ terminalCount' = 0
          /\ reconnSince' = TRUE
          /\ preReconnect' = {t.id : t \in timeouts}
          /\ reconnectSetups' = 1
  /\ UNCHANGED <<mounted, sessionId>>

\* the component unmounts: the effect cleanup runs
Dispose ==
  /\ mounted
  /\ mounted' = FALSE
  /\ Commit(cleanup(Cur))
  /\ HistOther("dispose", cleanup(Cur))
  /\ UNCHANGED sessionId

\* a pending reconnection timeout expires
TimeoutFire(t) ==
  /\ t \in timeouts
  /\ CanOpen
  /\ Commit(timeoutCallback(Cur, t))
  /\ lastOp' = "timeout"
  /\ reconnSince' = TRUE
  /\ reconnectSetups' = IF t.id \in preReconnect THEN reconnectSetups + 1
                        ELSE reconnectSetups
  /\ preReconnect' = preReconnect \ {t.id}
  /\ UNCHANGED <<failures, terminalCount>>
  /\ UNCHANGED <<mounted, sessionId>>

\* the subscribe callback of channel c receives SUBSCRIBED
StatusSubscribed(c) ==
  /\ c \in Live
  /\ channels[c].state \in {"joining", "errored"}
  /\ CanTime
  /\ Commit(onSubscribed([Cur EXCEPT !.channels[c].state = "joined"], c))
  /\ lastOp' = "SUBSCRIBED"
  /\ failures' = 0
  /\ terminalCount' = 0
  /\ reconnSince' = IF c = channelRef THEN FALSE ELSE reconnSince
  /\ UNCHANGED <<preReconnect, reconnectSetups>>
  /\ UNCHANGED <<mounted, sessionId>>

\* the subscribe callback of channel c receives CLOSED
StatusClosed(c) ==
  /\ c \in Live
  /\ channels[c].state \in {"joining", "joined", "errored"}
  /\ CanTime
  /\ LET s == onClosed([Cur EXCEPT !.channels[c].state = "closed"], c)
     IN Commit(s) /\ HistFailure("CLOSED", s)
  /\ UNCHANGED <<mounted, sessionId>>

\* the subscribe callback of channel c receives CHANNEL_ERROR
StatusChannelError(c) ==
  /\ c \in Live
  /\ channels[c].state \in {"joining", "joined"}
  /\ CanTime
  /\ LET s == onChannelError([Cur EXCEPT !.channels[c].state = "errored"], c)
     IN Commit(s) /\ HistFailure("CHANNEL_ERROR", s)
  /\ UNCHANGED <<mounted, sessionId>>

\* the 'system' error listener of channel c is called
SystemError(c) ==
  /\ c \in Live
  /\ channels[c].state \in {"joining", "joined", "errored"}
  /\ CanTime
  /\ LET s == onSystemError(Cur, c)
     IN Commit(s) /\ HistFailure("system_error", s)
  /\ UNCHANGED <<mounted, sessionId>>

\* the postgres_changes listener of channel c receives an INSERT payload, lines 92-99
InsertEvent(c, role) ==
  /\ c \in Live
  /\ channels[c].state = "joined"
  /\ Commit(onInsert(Cur, role))
  /\ HistOther(IF role \in ValidRoles THEN "insert" ELSE "insert_invalid_role", Cur)
  /\ UNCHANGED <<mounted, sessionId>>

\* the heartbeat interval iv ticks
HeartbeatTick(iv, closed) ==
  /\ iv \in intervals
  /\ closed \in ProbeClosed(channels[iv.ch])
  /\ closed \/ iv.ch \in pendingSends \/ Cardinality(pendingSends) < MaxSends
  /\ Commit(heartbeatTick(Cur, iv, closed))
  /\ HistOther("heartbeat", Cur)
  /\ UNCHANGED <<mounted, sessionId>>

\* the heartbeat send promise of channel c is fulfilled
SendResolved(c) ==
  /\ c \in pendingSends
  /\ Commit([Cur EXCEPT !.pendingSends = @ \ {c}])
  /\ HistOther("send_ok", Cur)
  /\ UNCHANGED <<mounted, sessionId>>

\* the heartbeat send promise of channel c is rejected
SendRejected(c) ==
  /\ c \in pendingSends
  /\ CanTime
  /\ LET s == onSendRejected(Cur, c)
     IN Commit(s) /\ HistFailure("heartbeat_failed", s)
  /\ UNCHANGED <<mounted, sessionId>>

\* what the transport and the timers do, for failure streaks below maxF and
\* retry counters below maxR
Env(maxF, maxR) ==
  \/ \E t \in timeouts : retryCount < maxR /\ TimeoutFire(t)
  \/ \E c \in DOMAIN channels : StatusSubscribed(c)
  \/ \E c \in DOMAIN channels : failures < maxF /\ StatusClosed(c)
  \/ \E c \in DOMAIN channels : failures < maxF /\ StatusChannelError(c)
  \/ \E c \in DOMAIN channels : failures < maxF /\ SystemError(c)
  \/ \E c \in DOMAIN channels, role \in Roles : InsertEvent(c, role)
  \/ \E iv \in intervals, closed \in BOOLEAN : HeartbeatTick(iv, closed)
  \/ \E c \in pendingSends : SendResolved(c)
  \/ \E c \in pendingSends : failures < maxF /\ SendRejected(c)

Next ==
  \/ \E sid \in Sids : SetSessionId(sid)
  \/ \E sid \in Sids : Setup(sid)
  \/ Reconnect
  \/ Dispose
  \/ Env(MaxFailures, MaxRetry)

Spec == Init /\ [][Next]_vars

\* the automatic path alone: the component sets the subscription up once and then
\* only the transport and the timers act
NextAuto ==
  \/ \E sid \in Sids : channelRef = 0 /\ timeouts = {} /\ Setup(sid)
  \/ Env(AutoMaxFailures, AutoMaxRetry)

SpecAuto == Init /\ [][NextAuto]_vars

\* the abandoned state: the retry counter has reached the maximum and a failure
\* has been answered with the terminal notification of lines 25-29
Abandoned == terminalCount >= 1 /\ retryCount >= MAX_RETRY_ATTEMPTS

\* the automatic path, and a component that calls setupSubscription again once
\* the retry counter has reached the maximum (so that the new channel's
\* callbacks capture that count), and reconnect once the manager has given up
NextRevive ==
  \/ \E sid \in Sids : channelRef = 0 /\ timeouts = {} /\ Setup(sid)
  \/ \E sid \in Sids : retryCount >= MAX_RETRY_ATTEMPTS /\ Setup(sid)
  \/ Abandoned /\ Reconnect
  \/ Env(AutoMaxFailures, AutoMaxRetry)

SpecRevive == Init /\ [][NextRevive]_vars

\* the automatic path when no channel ever reports SUBSCRIBED: one setup by the
\* component, then only recoverable failures and reconnection timers
NextFail ==
  \/ \E sid \in Sids : channelRef = 0 /\ timeouts = {} /\ Setup(sid)
  \/ \E t \in timeouts : retryCount < AutoMaxRetry /\ TimeoutFire(t)
  \/ \E c \in DOMAIN channels : failures < AutoMaxFailures /\ StatusClosed(c)
  \/ \E c \in DOMAIN channels : failures < AutoMaxFailures /\ StatusChannelError(c)
  \/ \E c \in DOMAIN channels : failures < AutoMaxFailures /\ SystemError(c)

SpecFail == Init /\ [][NextFail]_vars

\* the number of channels opened so far in a behaviour of SpecFail: the first by
\* the component's setup, every later one by a timer callback, which increments
\* the retry counter (line 40) before it opens the channel (line 46); nothing in
\* SpecFail resets the counter
ChannelsOpened == IF channelRef = 0 THEN 0 ELSE retryCount + 1

TypeOK ==
  /\ mounted \in BOOLEAN
  /\ sessionId \in Sids \cup {NoSession}
  /\ retryCount \in Nat
  /\ isConnected \in BOOLEAN
  /\ channelRef \in {0} \cup DOMAIN channels
  /\ DOMAIN channels \subseteq 1..MaxChannels
  /\ TimerIdsInUse(Cur) \subseteq 1..MaxTimerIds

FailureOps == {"CLOSED", "CHANNEL_ERROR", "system_error", "heartbeat_failed"}

\* ------------------------------------------------------------------------
\* C1: in every reachable state the manager holds at most one channel that is
\* opened and not removed, and it is the one channelRef names (so a setup over
\* an existing handle has removed that handle), and at most one heartbeat
\* interval is active.
C1_OneHandleOneHeartbeat ==
  /\ Live \subseteq {channelRef}
  /\ Cardinality(Live) <= 1
  /\ Cardinality(intervals) <= 1

\* a setup has just replaced a handle: the old channel is removed (a heartbeat
\* send to it is still in flight) and the new one is held
C1_Witness ==
  /\ lastOp = "setup"
  /\ channelRef \in Live
  /\ \E c \in DOMAIN channels : channels[c].removed /\ c \in pendingSends

\* ------------------------------------------------------------------------
\* C2: once the component is unmounted no timer is pending (no heartbeat
\* interval, no reconnection timeout) and no channel is left registered, in
\* every state reachable after the disposal.
C2_DisposedLeavesNothing ==
  ~mounted => (timeouts = {} /\ intervals = {} /\ Live = {})

\* ------------------------------------------------------------------------
\* C3: reconnect() with a known session id resets the retry counter to 0 and
\* leads to exactly one setup, the setups of timers that were pending at the
\* call included.
C3_ReconnectOneSetup ==
  /\ lastOp = "reconnect" => (retryCount = 0 /\ reconnectSetups = 1)
  /\ reconnectSetups <= 1

\* ------------------------------------------------------------------------
\* C4: the 5th recoverable failure in a row (each of the four before it was
\* followed by its reconnection, no SUBSCRIBED and no manual reconnect in
\* between, session id known) schedules no reconnection timer and emits the
\* terminal notification exactly once.
C4_FifthFailureIsTerminal ==
  [][(/\ sessionId # NoSession
      /\ failures = 4 /\ retryCount = 4 /\ timeouts = {}
      /\ failures' = 5)
     => (timeouts' = {} /\ CountTerminal(toasts') = 1 /\ terminalCount' = 1)]_vars

\* ------------------------------------------------------------------------
\* C5: after N failures in a row (N < 5), each followed by its reconnection,
\* the next failure schedules a reconnection whose delay is
\* min(1000 * 2^N, 30000) ms.
C5_DelayFollowsFailures ==
  [][(/\ sessionId # NoSession
      /\ failures < MAX_RETRY_ATTEMPTS /\ retryCount = failures /\ timeouts = {}
      /\ failures' = failures + 1)
     => \E t \in timeouts' : t.delay = Min(1000 * Pow2(failures), 30000)]_vars

C7_SubscribedResets ==
  [][(lastOp' = "SUBSCRIBED") =>
       /\ retryCount' = 0
       /\ isConnected'
       /\ \E c \in DOMAIN channels :
            /\ channels[c].state # "joined"
            /\ c \in DOMAIN channels' /\ channels'[c].state = "joined"
            /\ intervals' = {[id |-> heartbeatIntervalRef', ch |-> c]}]_vars

\* SUBSCRIBED has been delivered after a failure (its reconnection is still
\* pending) and the heartbeat runs
C7_Witness ==
  /\ lastOp = "SUBSCRIBED"
  /\ timeouts # {}
  /\ Cardinality(intervals) = 1

\* ------------------------------------------------------------------------
\* C8: while the component is mounted, isConnected is true only if the held
\* handle is Subscribed and no reconnection (scheduled, fired or manual) was
\* triggered since that handle reported SUBSCRIBED.
C8_ConnectedMeansSubscribed ==
  (mounted /\ isConnected) =>
     /\ channelRef \in DOMAIN channels
     /\ channels[channelRef].state = "joined"
     /\ ~reconnSince

\* ------------------------------------------------------------------------
\* C9: right after reconnect() (session id known) or the unmount cleanup has
\* returned, no reconnection timeout is pending and no heartbeat interval is
\* active.
C9_CancelsTimers ==
  lastOp \in {"reconnect", "dispose"} => (timeouts = {} /\ intervals = {})

\* ------------------------------------------------------------------------
\* C10: 0 <= retryCount <= 5 in every reachable state, and the counter is 0
\* right after every SUBSCRIBED status and every manual reconnect.
C10_RetryBounded ==
  /\ retryCount >= 0
  /\ retryCount <= MAX_RETRY_ATTEMPTS
  /\ lastOp \in {"SUBSCRIBED", "reconnect"} => retryCount = 0

\* what the manager's connection state consists of: the two state cells, the
\* handle, and both timers
connState == <<isConnected, retryCount, channelRef, channels, heartbeatIntervalRef,
               intervals, timeoutRef, timeouts, pendingSends>>

\* ------------------------------------------------------------------------
\* C11: an INSERT event whose role is outside user / assistant / owner emits no
\* notification and leaves isConnected, the retry counter, the handle, the
\* heartbeat timer and the reconnect timer as they were.
C11_InvalidRoleDiscarded ==
  [][(lastOp' = "insert_invalid_role") =>
       (toasts' = <<>> /\ UNCHANGED connState)]_vars

\* an event with an invalid role has arrived on a subscribed channel whose
\* heartbeat runs, and the manager is still connected
C11_Witness ==
  /\ lastOp = "insert_invalid_role"
  /\ isConnected
  /\ channelRef \in Live
  /\ \E iv \in intervals : iv.ch = channelRef

\* ------------------------------------------------------------------------
\* C12: reconnect() without a known session id emits no notification, opens
\* and removes no channel, and leaves the retry counter, isConnected and both
\* timers as they were.
C12_ReconnectNoSessionNoop ==
  [][(lastOp' = "reconnect_nosession") =>
       (toasts' = <<>> /\ UNCHANGED connState)]_vars

\* reconnect() has been called without a session id while a channel is held
C12_Witness ==
  /\ lastOp = "reconnect_nosession"
  /\ sessionId = NoSession
  /\ channelRef \in Live

\* ------------------------------------------------------------------------
\* C13: in every reachable state at most one reconnection timer is pending,
\* and it is the one timeoutRef holds: a reconnection scheduled while another
\* is pending has cleared and replaced it, so of two failure notifications
\* only the later one's timer can fire.
C13_OnePendingTimer ==
  /\ Cardinality(timeouts) <= 1
  /\ \A t \in timeouts : t.id = timeoutRef

\* two failures were reported with no timer firing in between, and exactly
\* one timer, the second, is pending
C13_Witness ==
  /\ lastOp \in FailureOps
  /\ failures = 2
  /\ retryCount = 0
  /\ mounted
  /\ intervals = {}
  /\ heartbeatIntervalRef = 0
  /\ timeoutRef = 2
  /\ Cardinality(timeouts) = 1

\* ------------------------------------------------------------------------
\* C14: a callback of a channel that has already been torn down is ignored;
\* here the rejection of a heartbeat send of a removed channel: it changes
\* neither isConnected nor the retry counter, starts or stops no heartbeat
\* and schedules no reconnection.
C14_StaleCallbackIgnored ==
  [][\A c \in pendingSends :
       (lastOp' = "heartbeat_failed" /\ c \notin pendingSends' /\ channels[c].removed)
         => UNCHANGED <<isConnected, retryCount, timeouts, intervals>>]_vars

\* whether a handleReconnection created with env schedules a timer (line 25)
Schedules(env) == env.sid # NoSession /\ env.retry < MAX_RETRY_ATTEMPTS

\* ------------------------------------------------------------------------
\* C15: when a subscribed channel reports CLOSED, the handler sets isConnected
\* to false, clears the heartbeat and schedules a reconnection, so that no
\* heartbeat interval is active when it returns.
C15_ClosedClearsHeartbeat ==
  [][\A c \in DOMAIN channels :
       (/\ lastOp' = "CLOSED"
        /\ channels[c].state = "joined"
        /\ c \in DOMAIN channels'
        /\ channels'[c].state = "closed")
       => /\ ~isConnected'
          /\ intervals' = {}
          /\ Schedules(channels[c].env) => timeouts' # {}]_vars

\* ------------------------------------------------------------------------
\* C16: a heartbeat probe that finds the channel closed, and a heartbeat send
\* that fails, both cancel the heartbeat, set isConnected to false and
\* schedule a reconnection.
C16_ProbeFailureReconnects ==
  [][\A iv \in intervals :
       (\/ lastOp' = "heartbeat" /\ iv \notin intervals'
        \/ lastOp' = "heartbeat_failed" /\ iv.ch \in pendingSends \ pendingSends')
       => /\ intervals' = {}
          /\ ~isConnected'
          /\ Schedules(channels[iv.ch].env) => timeouts' # {}]_vars

\* ------------------------------------------------------------------------
\* C17: in every reachable state an active heartbeat implies that the manager
\* holds a handle, that the handle is subscribed, and that the heartbeat
\* probes that handle.
C17_HeartbeatOnSubscribedHandle ==
  \A iv \in intervals :
    /\ channelRef \in DOMAIN channels
    /\ iv.ch = channelRef
    /\ ~channels[channelRef].removed
    /\ channels[channelRef].state = "joined"

\* ------------------------------------------------------------------------
\* C18: when setupSubscription or reconnect has opened the new channel, every
\* previous channel has been removed, no heartbeat is active and no
\* reconnection timer scheduled earlier is still pending.
C18_TeardownBeforeOpen ==
  lastOp \in {"setup", "reconnect"} =>
    /\ Live = {channelRef}
    /\ \A c \in DOMAIN channels : c # channelRef => channels[c].removed
    /\ intervals = {}
    /\ timeouts = {}

\* ------------------------------------------------------------------------
\* C19: once the retry counter has reached the maximum and a failure has put
\* the manager in the abandoned state, nothing but an external call opens a
\* channel, schedules a reconnection timer or changes the retry counter; an
\* external reconnect() resets the counter to 0 and opens a new channel.
C19_AbandonedIsDeadEnd ==
  [][Abandoned =>
       /\ (lastOp' \notin {"reconnect", "setup"}) =>
            /\ retryCount' = retryCount
            /\ timeouts' \subseteq timeouts
            /\ Live' \subseteq Live
       /\ (lastOp' = "reconnect") =>
            /\ retryCount' = 0
            /\ channelRef' \in Live'
            /\ channels'[channelRef'].state = "joining"]_vars

\* ------------------------------------------------------------------------
\* C20: when every channel fails and none reports SUBSCRIBED, and the
\* component neither reconnects nor sets up again, the manager opens at most
\* 1 + MAX_RETRY_ATTEMPTS channels, and once it has opened that many no
\* reconnection timer is pending or scheduled any more.
C20_FinitelyManyChannels ==
  /\ ChannelsOpened <= 1 + MAX_RETRY_ATTEMPTS
  /\ ChannelsOpened = 1 + MAX_RETRY_ATTEMPTS => timeouts = {}

====
